---------------------------- MODULE Spec2Model ----------------------------
(***************************************************************************)
(* GPU allocation optimizer (autoscaler/optimizer/gpu_optimizer.py).       *)
(*                                                                         *)
(* GPUOptimizer.get_optimal_gpu_allocation encodes a mixed-integer program *)
(* on the modeling object it was constructed with, solves it and           *)
(* assembles an OptimizationResult.  The modeling object (a docplex Model  *)
(* behind DoCplexOptimizationModel) is a field of the optimizer: every     *)
(* call adds fresh variables and constraints to it and replaces its        *)
(* objective; nothing ever clears it.                                      *)
(*                                                                         *)
(* Python dicts are functions (DOMAIN d = d.keys()), the empty dict and    *)
(* the empty list are <<>>.  An optional value is a sequence of length at  *)
(* most one: None is <<>>, a present value x is <<x>>.                     *)
(*                                                                         *)
(* Numbers: rates, costs and the change penalty are integers (the          *)
(* constraints and the objective are invariant under scaling them);        *)
(* gpu_number is a float in the source and is kept in fixed point, in      *)
(* units of 1/GpuScale accelerator, so that a consumption can be           *)
(* fractional and used_gpu, an integer variable, can round it up.          *)
(***************************************************************************)
EXTENDS Integers, Sequences, FiniteSets, TLC

VARIABLES mdl, pc, args, solution, result, ncalls, nsolve, last, cli, go

vars == <<mdl, pc, args, solution, result, ncalls, nsolve, last, cli, go>>

-----------------------------------------------------------------------------
(* Bounds of the model. *)

\* eta[m, v] ranges over 0..MaxEta (an integer variable has no upper bound).
MaxEta == 2
\* used_gpu[t] ranges over 0..MaxUsedGpu.
MaxUsedGpu == 4
\* Calls made on one optimizer in SpecReuse.
MaxCalls == 2

\* gpu_number is counted in units of 1/GpuScale accelerator.
GpuScale == 2

-----------------------------------------------------------------------------
(* Python helpers. *)

None == <<>>
Some(x) == <<x>>

\* dict.get(k, default)
Get(d, k, default) == IF k \in DOMAIN d THEN d[k] ELSE default

\* sum(d.values()) / mdl.sum([...]) over the values of f
RECURSIVE Sum(_)
Sum(f) ==
    IF DOMAIN f = {} THEN 0
    ELSE LET x == CHOOSE y \in DOMAIN f : TRUE
         IN  f[x] + Sum([y \in DOMAIN f \ {x} |-> f[y]])

\* max(...) of a non-empty set of numbers
Max(S) == CHOOSE x \in S : \A y \in S : y <= x

Min(S) == CHOOSE x \in S : \A y \in S : x <= y

\* the smallest integer >= x / d
CeilDiv(x, d) == (x + d - 1) \div d

\* the (model_id, setup_id) keys of the variants catalog
Pairs(variants) ==
    UNION {{<<m, v>> : v \in DOMAIN variants[m]} : m \in DOMAIN variants}

-----------------------------------------------------------------------------
(* Problem encoder: the constraint blocks of get_optimal_gpu_allocation,   *)
(* each as the predicate it puts on the eta of the call.                   *)

\* max_replicas_ct with the truthiness filter of min_replicas_ct (`if replicas`),
\* which skips an entry of 0
max_replicas_ct_truthy(in, eta) ==
    \A m \in DOMAIN in.max_replicas : \A v \in DOMAIN in.max_replicas[m] :
        (in.max_replicas[m][v] # None /\ in.max_replicas[m][v][1] # 0)
            => eta[<<m, v>>] <= in.max_replicas[m][v][1]

\* eta[model_id, setup_id] <= replicas, for the entries that are not None
max_replicas_ct(in, eta) ==
    \A m \in DOMAIN in.max_replicas : \A v \in DOMAIN in.max_replicas[m] :
        in.max_replicas[m][v] # None
            => eta[<<m, v>>] <= in.max_replicas[m][v][1]

\* min_replicas_ct with the comparison of max_replicas_ct (<= for >=)
min_replicas_ct_reversed(in, eta) ==
    \A m \in DOMAIN in.min_replicas : \A v \in DOMAIN in.min_replicas[m] :
        in.min_replicas[m][v] # 0
            => eta[<<m, v>>] <= in.min_replicas[m][v]

\* eta[model_id, setup_id] >= replicas, for the truthy (non-zero) entries
min_replicas_ct(in, eta) ==
    \A m \in DOMAIN in.min_replicas : \A v \in DOMAIN in.min_replicas[m] :
        in.min_replicas[m][v] # 0
            => eta[<<m, v>>] >= in.min_replicas[m][v]

\* add_sos1 over the variants of each model of required_rates
sos1(in, eta) ==
    in.homogeneous =>
        \A m \in DOMAIN in.required_rates :
            Cardinality({v \in DOMAIN in.variants[m] : eta[<<m, v>>] # 0}) <= 1

\* min_instances_ct with the scale_to_zero test inverted (`in` for `not in`)
min_instances_ct_inverted(in, eta) ==
    \A m \in DOMAIN in.variants :
        (/\ m \in in.scale_to_zero
         /\ Sum(Get(in.deployed_instances[1], m, [a |-> 0])) > 0)
            => Sum([v \in DOMAIN in.variants[m] |-> eta[<<m, v>>]]) >= 1

\* min_instances_ct counting the current replicas: a model that is not in
\* scale_to_zero keeps at least as many instances as it has
min_instances_ct_current(in, eta) ==
    \A m \in DOMAIN in.variants :
        m \notin in.scale_to_zero
            => Sum([v \in DOMAIN in.variants[m] |-> eta[<<m, v>>]])
                  >= Sum(Get(in.deployed_instances[1], m, [a |-> 0]))

\* min_instances_ct without the test of the current layout: every model that
\* is not in scale_to_zero gets an instance
min_instances_ct_always(in, eta) ==
    \A m \in DOMAIN in.variants :
        m \notin in.scale_to_zero
            => Sum([v \in DOMAIN in.variants[m] |-> eta[<<m, v>>]]) >= 1

\* at least one instance for a model that is not in scale_to_zero and is deployed
min_instances_ct(in, eta) ==
    \A m \in DOMAIN in.variants :
        (/\ m \notin in.scale_to_zero
         /\ Sum(Get(in.deployed_instances[1], m, [a |-> 0])) > 0)
            => Sum([v \in DOMAIN in.variants[m] |-> eta[<<m, v>>]]) >= 1

\* service_rate_ct with the comparison turned around
service_rate_ct_reversed(in, eta) ==
    \A m \in DOMAIN in.required_rates :
        in.required_rates[m]
            >= Sum([v \in DOMAIN in.variants[m] |->
                       in.variants[m][v].max_service_rate * eta[<<m, v>>]])

\* the instances serve the required rate
service_rate_ct(in, eta) ==
    \A m \in DOMAIN in.required_rates :
        in.required_rates[m]
            <= Sum([v \in DOMAIN in.variants[m] |->
                       in.variants[m][v].max_service_rate * eta[<<m, v>>]])

\* gpu_type -> the (model_id, setup_id, gpu_number) on it, for the types of
\* gpu_limits that have at least one setup (the local setups_per_gpu)
setups_per_gpu(in) ==
    LET all == [t \in DOMAIN in.gpu_limits |->
                   {<<p[1], p[2], in.variants[p[1]][p[2]].gpu_number>> :
                       p \in {q \in Pairs(in.variants) :
                                 in.variants[q[1]][q[2]].gpu_type = t}}]
    IN  [t \in {u \in DOMAIN all : all[u] # {}} |-> all[t]]

\* the local max_gpu_cost, from the local setups_per_gpu
max_gpu_cost(in, setups) ==
    IF DOMAIN setups # {}
    THEN Max({Get(in.gpu_cost, t, 0) : t \in DOMAIN setups})
    ELSE 0

\* mdl.sum(gpu_number * eta) over the setups of one gpu type, in 1/GpuScale units
GpuSum(gpu_setups, eta) ==
    Sum([s \in gpu_setups |-> s[3] * eta[<<s[1], s[2]>>]])

\* gpu_limit_ct counting instances instead of gpus (gpu_number dropped)
gpu_limit_ct_instances(in, setups, eta) ==
    \A t \in DOMAIN setups :
        Sum([s \in setups[t] |-> eta[<<s[1], s[2]>>]]) * GpuScale
            <= in.gpu_limits[t] * GpuScale

\* the gpus of each type do not exceed the limit
gpu_limit_ct(in, setups, eta) ==
    \A t \in DOMAIN setups :
        GpuSum(setups[t], eta) <= in.gpu_limits[t] * GpuScale

\* service rate of the deployed instances minus the required rate, per model
\* (the local delta_rates)
delta_rates(in) ==
    LET dep == in.deployed_instances[1]
    IN  [m \in DOMAIN dep |->
            Sum([v \in DOMAIN dep[m] |->
                    dep[m][v] * in.variants[m][v].max_service_rate])
            - Get(in.required_rates, m, 0)]

\* the keys of the delta variables: every setup of every deployed model
DeltaKeys(in) ==
    UNION {{<<m, v>> : v \in DOMAIN in.variants[m]} :
              m \in DOMAIN in.deployed_instances[1]}

\* delta[model_id, setup_id] >= eta - inst_num when the deployment serves the
\* rate, >= inst_num - eta otherwise, for the listed (model_id, setup_id)
instance_change_ct(in, rates, eta, delta) ==
    LET dep == in.deployed_instances[1]
    IN  \A m \in DOMAIN dep : \A v \in DOMAIN dep[m] :
            IF rates[m] >= 0
            THEN delta[<<m, v>>] >= eta[<<m, v>>] - dep[m][v]
            ELSE delta[<<m, v>>] >= dep[m][v] - eta[<<m, v>>]

\* used_gpu[gpu_type] >= the gpus of that type
int_gpu_ct(setups, eta, used_gpu) ==
    \A t \in DOMAIN setups :
        used_gpu[t] * GpuScale >= GpuSum(setups[t], eta)

\* Objective without the unit costs: the number of gpus instead of their cost
Objective_unweighted(in, setups, used_gpu, delta) ==
    Sum([t \in DOMAIN setups |-> used_gpu[t]])
    + in.change_penalty * Sum(delta) * max_gpu_cost(in, setups)

\* the expression handed to mdl.minimize
Objective(in, setups, used_gpu, delta) ==
    Sum([t \in DOMAIN setups |-> Get(in.gpu_cost, t, 0) * used_gpu[t]])
    + in.change_penalty * Sum(delta) * max_gpu_cost(in, setups)

-----------------------------------------------------------------------------
(* The constraint blocks in the order the encoder adds them.  A block whose *)
(* list comprehension raises is not added; the blocks before it stay in the *)
(* model.                                                                   *)

BlockOrder ==
    <<"max_replicas_ct", "min_replicas_ct", "sos1", "min_instances_ct",
      "service_rate_ct", "gpu_limit_ct", "instance_change_ct", "int_gpu_ct">>

\* the blocks the call builds at all (the `if` guards of the encoder)
Present(in, ct) ==
    CASE ct = "max_replicas_ct"    -> in.max_replicas # <<>>
      [] ct = "min_replicas_ct"    -> in.min_replicas # <<>>
      [] ct = "sos1"               -> in.homogeneous
      [] ct = "instance_change_ct" -> in.change_penalty > 0
      [] OTHER                     -> TRUE

\* Raises with the element of each comprehension evaluated before its filter:
\* an entry of None or 0 on a pair the catalog lacks raises too
Raises_unfiltered(in, ct) ==
    CASE ct = "max_replicas_ct" ->
            \E m \in DOMAIN in.max_replicas : \E v \in DOMAIN in.max_replicas[m] :
                <<m, v>> \notin Pairs(in.variants)
      [] ct = "min_replicas_ct" ->
            \E m \in DOMAIN in.min_replicas : \E v \in DOMAIN in.min_replicas[m] :
                <<m, v>> \notin Pairs(in.variants)
      [] ct = "sos1" ->
            \E m \in DOMAIN in.required_rates : m \notin DOMAIN in.variants
      [] ct = "min_instances_ct" ->
            /\ in.deployed_instances = None
            /\ \E m \in DOMAIN in.variants : m \notin in.scale_to_zero
      [] ct = "service_rate_ct" ->
            \E m \in DOMAIN in.required_rates : m \notin DOMAIN in.variants
      [] ct = "instance_change_ct" ->
            \/ in.deployed_instances = None
            \/ \E m \in DOMAIN in.deployed_instances[1] :
                  \/ m \notin DOMAIN in.variants
                  \/ \E v \in DOMAIN in.deployed_instances[1][m] :
                        v \notin DOMAIN in.variants[m]
      [] OTHER -> FALSE

\* building the block raises (KeyError on eta[...] or variants[...],
\* AttributeError on None.get / None.keys)
Raises(in, ct) ==
    CASE ct = "max_replicas_ct" ->
            \E m \in DOMAIN in.max_replicas : \E v \in DOMAIN in.max_replicas[m] :
                /\ in.max_replicas[m][v] # None
                /\ <<m, v>> \notin Pairs(in.variants)
      [] ct = "min_replicas_ct" ->
            \E m \in DOMAIN in.min_replicas : \E v \in DOMAIN in.min_replicas[m] :
                /\ in.min_replicas[m][v] # 0
                /\ <<m, v>> \notin Pairs(in.variants)
      [] ct = "sos1" ->
            \E m \in DOMAIN in.required_rates : m \notin DOMAIN in.variants
      [] ct = "min_instances_ct" ->
            /\ in.deployed_instances = None
            /\ \E m \in DOMAIN in.variants : m \notin in.scale_to_zero
      [] ct = "service_rate_ct" ->
            \E m \in DOMAIN in.required_rates : m \notin DOMAIN in.variants
      [] ct = "instance_change_ct" ->
            \/ in.deployed_instances = None
            \/ \E m \in DOMAIN in.deployed_instances[1] :
                  \/ m \notin DOMAIN in.variants
                  \/ \E v \in DOMAIN in.deployed_instances[1][m] :
                        v \notin DOMAIN in.variants[m]
      [] OTHER -> FALSE

\* the position in BlockOrder of the first block that raises, 0 when none does
RaiseAt(in) ==
    LET bad == {i \in 1..Len(BlockOrder) :
                   Present(in, BlockOrder[i]) /\ Raises(in, BlockOrder[i])}
    IN  IF bad = {} THEN 0 ELSE Min(bad)

\* the blocks one call leaves in the model
EncodedCts(in) ==
    {BlockOrder[i] : i \in {j \in 1..Len(BlockOrder) :
                              /\ Present(in, BlockOrder[j])
                              /\ RaiseAt(in) = 0 \/ j < RaiseAt(in)}}

-----------------------------------------------------------------------------
(* Solver driver: mdl.solve() of the docplex model.  solve() returns the    *)
(* solution of the model, None when it has none.  The model holds the       *)
(* variables and constraints of every call so far and the objective of the  *)
(* last one.  Costs are non-negative, so the objective is bounded below.    *)

\* the least used_gpu that int_gpu_ct allows for eta
UsedMin(setups, eta) ==
    [t \in DOMAIN setups |-> CeilDiv(GpuSum(setups[t], eta), GpuScale)]

\* Delta with the two branches of instance_change_ct swapped
Delta_swapped(in, eta) ==
    IF in.change_penalty > 0
    THEN LET dep == in.deployed_instances[1]
             rates == delta_rates(in)
         IN  [k \in DeltaKeys(in) |->
                IF k[2] \in DOMAIN dep[k[1]]
                THEN LET d == IF rates[k[1]] >= 0
                              THEN dep[k[1]][k[2]] - eta[k]
                              ELSE eta[k] - dep[k[1]][k[2]]
                     IN  IF d > 0 THEN d ELSE 0
                ELSE 0]
    ELSE <<>>

\* the least delta (a continuous variable, lower bound 0) that
\* instance_change_ct allows for eta; delta = 0 when change_penalty is 0
Delta(in, eta) ==
    IF in.change_penalty > 0
    THEN LET dep == in.deployed_instances[1]
             rates == delta_rates(in)
         IN  [k \in DeltaKeys(in) |->
                IF k[2] \in DOMAIN dep[k[1]]
                THEN LET d == IF rates[k[1]] >= 0
                              THEN eta[k] - dep[k[1]][k[2]]
                              ELSE dep[k[1]][k[2]] - eta[k]
                     IN  IF d > 0 THEN d ELSE 0
                ELSE 0]
    ELSE <<>>

\* one constraint block on eta holds; instance_change_ct and int_gpu_ct bound
\* delta and used_gpu from below only, and those have no upper bound
Holds(ct, in, setups, eta) ==
    CASE ct = "max_replicas_ct"    -> max_replicas_ct(in, eta)
      [] ct = "min_replicas_ct"    -> min_replicas_ct(in, eta)
      [] ct = "sos1"               -> sos1(in, eta)
      [] ct = "min_instances_ct"   -> min_instances_ct(in, eta)
      [] ct = "service_rate_ct"    -> service_rate_ct(in, eta)
      [] ct = "gpu_limit_ct"       -> gpu_limit_ct(in, setups, eta)
      [] OTHER                     -> TRUE

\* the integer assignments of the eta of one call that satisfy its blocks
FeasibleEtas(gen) ==
    LET setups == setups_per_gpu(gen.in)
    IN  {eta \in [Pairs(gen.in.variants) -> 0..MaxEta] :
            \A ct \in gen.cts : Holds(ct, gen.in, setups, eta)}

\* the constraints one call left in the model can be satisfied
Feasible(gen) ==
    LET setups == setups_per_gpu(gen.in)
    IN  \E eta \in [Pairs(gen.in.variants) -> 0..MaxEta] :
            \A ct \in gen.cts : Holds(ct, gen.in, setups, eta)

\* Optimal without the minimisation: any solution that satisfies the
\* constraints, as if no objective had been set
Optimal_any(in, etas) ==
    LET setups == setups_per_gpu(in)
    IN  {[eta |-> e, used_gpu |-> UsedMin(setups, e)] : e \in etas}

\* the optimal solutions of the problem of one call: eta, and every used_gpu
\* that int_gpu_ct allows at the optimal objective value (used_gpu ranges up
\* to MaxUsedGpu, or up to what the optimal eta need where that is more)
Optimal(in, etas) ==
    LET setups == setups_per_gpu(in)
        valued == {<<e, Objective(in, setups, UsedMin(setups, e), Delta(in, e))>> :
                      e \in etas}
        best == Min({p[2] : p \in valued})
        opt == {p[1] : p \in {q \in valued : q[2] = best}}
        top == Max({MaxUsedGpu} \cup
                   {UsedMin(setups, e)[t] : e \in opt, t \in DOMAIN setups})
    IN  {s \in {[eta |-> e, used_gpu |-> u] :
                   e \in opt, u \in [DOMAIN setups -> 0..top]} :
            /\ int_gpu_ct(setups, s.eta, s.used_gpu)
            /\ in.change_penalty > 0 =>
                  instance_change_ct(in, delta_rates(in), s.eta, Delta(in, s.eta))
            /\ Objective(in, setups, s.used_gpu, Delta(in, s.eta)) = best}

\* SolveOutcomes with the objective of the first call left in force
SolveOutcomes_stale(m) ==
    LET etas == FeasibleEtas(m[Len(m)])
    IN  IF etas = {} \/ \E i \in 1..(Len(m) - 1) : ~Feasible(m[i])
        THEN {None}
        ELSE {Some(s) : s \in {o \in Optimal(m[1].in, etas) :
                                  DOMAIN o.used_gpu =
                                      DOMAIN setups_per_gpu(m[Len(m)].in)}}

\* the outcomes of mdl.solve(): None, or a solution of the whole model (the
\* variables of earlier calls only have to satisfy what those calls left)
SolveOutcomes(m) ==
    LET etas == FeasibleEtas(m[Len(m)])
    IN  IF etas = {} \/ \E i \in 1..(Len(m) - 1) : ~Feasible(m[i])
        THEN {None}
        ELSE {Some(s) : s \in Optimal(m[Len(m)].in, etas)}

-----------------------------------------------------------------------------
(* Result assembler. *)

\* AssembleResult without the test of the solver's answer: the no-solution
\* branch reports the input supply
AssembleResult_supply(in, sol) ==
    IF sol # None
    THEN [gpu_after_allocation |->
             [t \in DOMAIN sol[1].used_gpu |-> in.gpu_limits[t] - sol[1].used_gpu[t]],
          models_data |->
             [m \in DOMAIN in.variants |->
                [requiredInstances |->
                    [v \in DOMAIN in.variants[m] |->
                        [instance_num |-> sol[1].eta[<<m, v>>],
                         gpu_type     |-> in.variants[m][v].gpu_type,
                         gpu_number   |-> in.variants[m][v].gpu_number]]]],
          impossible_models |-> <<>>, strange_models |-> <<>>,
          missing_models |-> <<>>, impossible_instances |-> <<>>]
    ELSE [gpu_after_allocation |-> in.gpu_limits, models_data |-> <<>>,
          impossible_models |-> <<>>, strange_models |-> <<>>,
          missing_models |-> <<>>, impossible_instances |-> <<>>]

\* AssembleResult without the subtraction: gpu_after_allocation reports the
\* used gpus instead of what is left of the limit
AssembleResult_used(in, sol) ==
    IF sol # None
    THEN [gpu_after_allocation |->
             IF DOMAIN setups_per_gpu(in) = {}
             THEN [t \in DOMAIN in.gpu_limits |-> in.gpu_limits[t]]
             ELSE [t \in DOMAIN sol[1].used_gpu |-> sol[1].used_gpu[t]],
          models_data |->
             [m \in DOMAIN in.variants |->
                [requiredInstances |->
                    [v \in DOMAIN in.variants[m] |->
                        [instance_num |-> sol[1].eta[<<m, v>>],
                         gpu_type     |-> in.variants[m][v].gpu_type,
                         gpu_number   |-> in.variants[m][v].gpu_number]]]],
          impossible_models |-> <<>>, strange_models |-> <<>>,
          missing_models |-> <<>>, impossible_instances |-> <<>>]
    ELSE [gpu_after_allocation |-> <<>>, models_data |-> <<>>,
          impossible_models |-> <<>>, strange_models |-> <<>>,
          missing_models |-> <<>>, impossible_instances |-> <<>>]

EmptyResult ==
    [gpu_after_allocation |-> <<>>, models_data |-> <<>>,
     impossible_models |-> <<>>, strange_models |-> <<>>,
     missing_models |-> <<>>, impossible_instances |-> <<>>]

\* the solution values are integral here, so round() leaves them as they are
AssembleResult(in, sol) ==
    IF sol # None
    THEN LET instances == sol[1].eta
             gpus == sol[1].used_gpu
             instances_per_model ==
                 [m \in DOMAIN in.variants |->
                     [v \in DOMAIN in.variants[m] |->
                         [instance_num |-> instances[<<m, v>>],
                          gpu_type     |-> in.variants[m][v].gpu_type,
                          gpu_number   |-> in.variants[m][v].gpu_number]]]
         IN  [gpu_after_allocation |->
                 IF DOMAIN setups_per_gpu(in) = {}
                 THEN [t \in DOMAIN in.gpu_limits |-> in.gpu_limits[t]]
                 ELSE [t \in DOMAIN gpus |-> in.gpu_limits[t] - gpus[t]],
              models_data |->
                 [m \in DOMAIN instances_per_model |->
                     [requiredInstances |-> instances_per_model[m]]],
              impossible_models |-> <<>>, strange_models |-> <<>>,
              missing_models |-> <<>>, impossible_instances |-> <<>>]
    ELSE EmptyResult

-----------------------------------------------------------------------------
(* The inputs of the calls.  A catalog of two models with two variants     *)
(* each, on two accelerator types; gpu_number 3 is 1.5 accelerators and    *)
(* gpu_number 1 is half an accelerator.                                    *)

Variant(id, type, number, rate) ==
    [variant_id |-> id, gpu_type |-> type, gpu_number |-> number,
     max_service_rate |-> rate]

Catalog ==
    [m1 |-> [a |-> Variant("a", "A", 2, 2), b |-> Variant("b", "B", 3, 3)],
     m2 |-> [c |-> Variant("c", "A", 1, 2), d |-> Variant("d", "B", 2, 2)]]

RateChoices ==
    {[m1 |-> 2, m2 |-> 2], [m1 |-> 4, m2 |-> 0], [m1 |-> 3]}

LimitChoices ==
    {[A |-> 3, B |-> 3, C |-> 2], [A |-> 1, B |-> 3], [A |-> 2],
     [A |-> 0, B |-> 0]}

CostChoices ==
    {[A |-> 10, B |-> 13], [A |-> 0, B |-> 13]}

ScaleToZeroChoices == {{}, {"m2"}}

DeployedChoices ==
    {Some(<<>>), Some([m1 |-> [a |-> 1, b |-> 1], m2 |-> [c |-> 0, d |-> 1]]),
     Some([m1 |-> [b |-> 1]])}

PenaltyChoices == {0, 3}

MaxReplicasChoices ==
    {<<>>, [m1 |-> [a |-> Some(0), b |-> None], m2 |-> [c |-> Some(1)]]}

MinReplicasChoices ==
    {<<>>, [m1 |-> [a |-> 1, b |-> 0]], [m2 |-> [c |-> 1, d |-> 1]]}

Base ==
    [variants |-> Catalog, required_rates |-> [m1 |-> 2, m2 |-> 2],
     gpu_limits |-> [A |-> 3, B |-> 3, C |-> 2],
     gpu_cost |-> [A |-> 10, B |-> 13], scale_to_zero |-> {},
     deployed_instances |-> Some(<<>>), change_penalty |-> 0,
     homogeneous |-> FALSE, max_replicas |-> <<>>, min_replicas |-> <<>>]

\* the inputs of a call on a freshly constructed optimizer: every combination
\* of the choices above (a change penalty only together with a current layout),
\* and an input whose gpu_cost lacks a type that variants run on
AllInputs ==
    {in \in [variants : {Catalog}, required_rates : RateChoices,
             gpu_limits : LimitChoices, gpu_cost : CostChoices,
             scale_to_zero : ScaleToZeroChoices,
             deployed_instances : DeployedChoices,
             change_penalty : PenaltyChoices, homogeneous : BOOLEAN,
             max_replicas : MaxReplicasChoices,
             min_replicas : MinReplicasChoices] :
        in.change_penalty > 0 => in.deployed_instances # Some(<<>>)}
    \cup {[Base EXCEPT !.gpu_cost = [B |-> 13]]}

-----------------------------------------------------------------------------
(* The optimizer as a state machine.                                        *)
(*   mdl       the docplex model of self.mdl: one entry per call made so    *)
(*             far, holding the variables (keyed by the call's catalog) and *)
(*             the constraint blocks that call added                        *)
(*   pc        where the current call stands                                *)
(*   args      the arguments of the current call                            *)
(*   solution  what mdl.solve() returned                                    *)
(*   result    the OptimizationResult returned                              *)
(*   ncalls    calls made on this optimizer; nsolve: solve() invocations of *)
(*             the current call                                             *)
(*   last      the arguments and the result of the previous call            *)
(*   cli       the process of cmd_folder/autoscaler.py around one call: its  *)
(*             arguments, the two files and its exit code (None when the    *)
(*             optimizer is used as a library)                              *)
(*   go        the process of cmd_folder/go_autoscaler_wrapper.py around    *)
(*             one call (None likewise)                                     *)

\* a freshly constructed optimizer and modeling object
Fresh ==
    /\ mdl = <<>>
    /\ pc = "idle"
    /\ args = None
    /\ solution = None
    /\ result = None
    /\ ncalls = 0
    /\ nsolve = 0
    /\ last = None

\* the optimizer used as a library: no command-line process around it
Init ==
    /\ Fresh
    /\ cli = None
    /\ go = None

\* the caller invokes get_optimal_gpu_allocation(in)
Call(in) ==
    /\ pc \in {"idle", "returned", "raised"}
    /\ ncalls < MaxCalls
    /\ args' = Some(in)
    /\ pc' = "encode"
    /\ solution' = None
    /\ result' = None
    /\ ncalls' = ncalls + 1
    /\ nsolve' = 0
    /\ last' = IF pc = "idle" THEN None
               ELSE Some([args |-> args[1], pc |-> pc, result |-> result])
    /\ UNCHANGED <<mdl, cli, go>>

\* the first call on a freshly constructed optimizer and modeling object
FirstCall(in) ==
    /\ ncalls = 0
    /\ Call(in)

\* lines 75-214: variables, constraint blocks and the objective go into the
\* model; an exception leaves the blocks added before it
Encode ==
    /\ pc = "encode"
    /\ mdl' = Append(mdl, [in |-> args[1], cts |-> EncodedCts(args[1])])
    /\ pc' = IF RaiseAt(args[1]) = 0 THEN "encoded" ELSE "raised"
    /\ UNCHANGED <<args, solution, result, ncalls, nsolve, last, cli, go>>

\* line 220: result = self.mdl.solve()
Solve ==
    /\ pc = "encoded"
    /\ \E s \in SolveOutcomes(mdl) : solution' = s
    /\ nsolve' = nsolve + 1
    /\ pc' = "solved"
    /\ UNCHANGED <<mdl, args, result, ncalls, last, cli, go>>

\* lines 222-263: the OptimizationResult is built and returned
Assemble ==
    /\ pc = "solved"
    /\ result' = Some(AssembleResult(args[1], solution))
    /\ pc' = "returned"
    /\ UNCHANGED <<mdl, args, solution, ncalls, nsolve, last, cli, go>>

\* one call on a fresh optimizer
Next ==
    \/ \E in \in AllInputs : FirstCall(in)
    \/ Encode
    \/ Solve
    \/ Assemble

Spec == Init /\ [][Next]_vars

-----------------------------------------------------------------------------
(* Several calls in a row on one optimizer, as the unit test makes them.    *)

ReuseInputs ==
    {Base,
     \* no supply at all: infeasible
     [Base EXCEPT !.gpu_limits = [A |-> 0, B |-> 0]],
     \* equal unit costs: several optimal plans
     [Base EXCEPT !.gpu_cost = [A |-> 10, B |-> 10]],
     \* a current layout and a change penalty
     [Base EXCEPT !.change_penalty = 3,
                  !.deployed_instances =
                      Some([m1 |-> [a |-> 1, b |-> 1], m2 |-> [c |-> 0, d |-> 1]])],
     \* a minimum on a variant the catalog does not have: KeyError
     [Base EXCEPT !.min_replicas = [m1 |-> [z |-> 1]]],
     \* contradictory bounds, then no current layout: AttributeError after the
     \* bounds went into the model
     [Base EXCEPT !.max_replicas = [m1 |-> [a |-> Some(0)]],
                  !.min_replicas = [m1 |-> [a |-> 1]],
                  !.deployed_instances = None]}

NextReuse ==
    \/ \E in \in ReuseInputs : Call(in)
    \/ Encode
    \/ Solve
    \/ Assemble

SpecReuse == Init /\ [][NextReuse]_vars

-----------------------------------------------------------------------------
(* The reference scenarios of the unit test: four models with two variants  *)
(* each on three accelerator types.  Unit costs are in tenths (1.3 is 13),  *)
(* gpu_number in 1/GpuScale units (6 accelerators are 12).                  *)

RefCatalog ==
    ("google-flan-xl" :>
        (("flan-a100" :> Variant("flan-a100", "A100", 6 * GpuScale, 15))
         @@ ("flan-h100" :> Variant("flan-h100", "H100", 3 * GpuScale, 20))))
    @@ ("lama-8b" :>
        (("lama8-a100+" :> Variant("lama8-a100+", "A100+", 5 * GpuScale, 10))
         @@ ("lama8-a100" :> Variant("lama8-a100", "A100", 3 * GpuScale, 8))))
    @@ ("lama-80b" :>
        (("lama80-h100" :> Variant("lama80-h100", "H100", 4 * GpuScale, 12))
         @@ ("lama80-a100+" :> Variant("lama80-a100+", "A100+", 7 * GpuScale, 10))))
    @@ ("mistral" :>
        (("mistral-a100" :> Variant("mistral-a100", "A100", 4 * GpuScale, 14))
         @@ ("mistral-h100" :> Variant("mistral-h100", "H100", 1 * GpuScale, 12))))

RefRates ==
    ("google-flan-xl" :> 25) @@ ("lama-8b" :> 20) @@ ("lama-80b" :> 22)
    @@ ("mistral" :> 15)

RefCost == ("A100" :> 10) @@ ("H100" :> 13) @@ ("A100+" :> 12)

RefLimits == ("A100" :> 15) @@ ("H100" :> 17) @@ ("A100+" :> 20)

\* a supply under which the A100 and the A100+ run short
TightLimits == ("A100" :> 9) @@ ("H100" :> 17) @@ ("A100+" :> 10)

RefMinReplicas ==
    ("google-flan-xl" :> ("flan-a100" :> 1)) @@ ("mistral" :> ("mistral-h100" :> 1))

RefMaxReplicas ==
    ("lama-8b" :> (("lama8-a100+" :> Some(3)) @@ ("lama8-a100" :> Some(2))))
    @@ ("mistral" :> (("mistral-a100" :> Some(2)) @@ ("mistral-h100" :> Some(2))))

\* deployed_instances of the first scenario
LayoutA ==
    ("google-flan-xl" :> (("flan-a100" :> 1) @@ ("flan-h100" :> 0)))
    @@ ("lama-80b" :> (("lama80-h100" :> 1) @@ ("lama80-a100+" :> 0)))
    @@ ("lama-8b" :> (("lama8-a100+" :> 1) @@ ("lama8-a100" :> 0)))
    @@ ("mistral" :> (("mistral-a100" :> 0) @@ ("mistral-h100" :> 0)))

\* deployed_instances of the later scenarios
LayoutB ==
    ("google-flan-xl" :> (("flan-a100" :> 1) @@ ("flan-h100" :> 1)))
    @@ ("lama-80b" :> (("lama80-h100" :> 1) @@ ("lama80-a100+" :> 0)))
    @@ ("lama-8b" :> (("lama8-a100+" :> 1) @@ ("lama8-a100" :> 0)))
    @@ ("mistral" :> (("mistral-a100" :> 0) @@ ("mistral-h100" :> 0)))

ScenarioA ==
    [variants |-> RefCatalog, required_rates |-> RefRates,
     gpu_limits |-> RefLimits, gpu_cost |-> RefCost,
     scale_to_zero |-> {"lama-80b"}, deployed_instances |-> Some(LayoutA),
     change_penalty |-> 0, homogeneous |-> TRUE,
     max_replicas |-> RefMaxReplicas, min_replicas |-> RefMinReplicas]

ScenarioB ==
    [ScenarioA EXCEPT !.deployed_instances = Some(LayoutB),
                      !.change_penalty = 3, !.homogeneous = FALSE]

ScenarioC == [ScenarioB EXCEPT !.scale_to_zero = {}]

ScenarioD == [ScenarioC EXCEPT !.max_replicas = <<>>, !.min_replicas = <<>>]

\* the four scenarios and the inputs between them: every combination of the
\* settings the scenarios differ in, under the reference and a tight supply
ScenarioInputs ==
    {[ScenarioA EXCEPT !.gpu_limits = l, !.scale_to_zero = z,
                       !.deployed_instances = Some(p[2]), !.change_penalty = p[1],
                       !.homogeneous = h, !.max_replicas = b[1],
                       !.min_replicas = b[2]] :
        l \in {RefLimits, TightLimits}, z \in {{"lama-80b"}, {}},
        p \in {<<0, LayoutA>>, <<3, LayoutB>>}, h \in BOOLEAN,
        b \in {<<RefMaxReplicas, RefMinReplicas>>, <<(<<>>), (<<>>)>>}}

\* one scenario run on a fresh optimizer
NextScenario ==
    \/ \E in \in ScenarioInputs : FirstCall(in)
    \/ Encode
    \/ Solve
    \/ Assemble

SpecScenario == Init /\ [][NextScenario]_vars

-----------------------------------------------------------------------------
(* Inputs at the edges of the signature: no demand, no current layout       *)
(* (deployed_instances left at None), negative numbers, and replica bounds  *)
(* that name a variant the catalog does not have ("z").                     *)

EdgeRateChoices ==
    {[m1 |-> 2, m2 |-> 2], [m1 |-> 3], [m1 |-> 0, m2 |-> 0], [m1 |-> 2, m2 |-> -1]}

EdgeLimitChoices ==
    {[A |-> 3, B |-> 3, C |-> 2], [A |-> 3, B |-> 3], [A |-> -1, B |-> 3]}

EdgeScaleToZeroChoices == {{}, {"m2"}, {"m1", "m2"}}

EdgeDeployedChoices ==
    {None, Some(<<>>), Some([m1 |-> [a |-> 1, b |-> 0], m2 |-> [c |-> 0, d |-> 1]])}

EdgeMaxReplicasChoices ==
    {<<>>, [m1 |-> [z |-> None]], [m1 |-> [z |-> Some(1)]],
     [m1 |-> [b |-> Some(1)]]}

EdgeMinReplicasChoices ==
    {<<>>, [m2 |-> [z |-> 0]], [m2 |-> [z |-> 1]], [m2 |-> [d |-> 1]]}

\* every combination of the choices above, and the two scenarios that differ
\* in scale_to_zero only
EdgeInputs ==
    [variants : {Catalog}, required_rates : EdgeRateChoices,
     gpu_limits : EdgeLimitChoices, gpu_cost : {[A |-> 10, B |-> 13]},
     scale_to_zero : EdgeScaleToZeroChoices,
     deployed_instances : EdgeDeployedChoices,
     change_penalty : {0}, homogeneous : {FALSE},
     max_replicas : EdgeMaxReplicasChoices,
     min_replicas : EdgeMinReplicasChoices]
    \cup {ScenarioB, ScenarioC}

\* one call on a fresh optimizer
NextEdge ==
    \/ \E in \in EdgeInputs : FirstCall(in)
    \/ Encode
    \/ Solve
    \/ Assemble

SpecEdge == Init /\ [][NextEdge]_vars

-----------------------------------------------------------------------------
(* What the claims speak of, read off the arguments and the returned        *)
(* OptimizationResult.                                                      *)

Returned == pc = "returned"

\* the call returned a non-empty plan
NonEmptyPlan == pc = "returned" /\ result[1].models_data # <<>>

\* the returned instance_num of (m, v)
Replicas(m, v) == result[1].models_data[m].requiredInstances[v].instance_num

\* the returned plan as a replica assignment
PlanEta == [p \in Pairs(args[1].variants) |-> Replicas(p[1], p[2])]

\* the service rate the returned plan gives model m
ServedRate(m) ==
    Sum([v \in DOMAIN args[1].variants[m] |->
            args[1].variants[m][v].max_service_rate * Replicas(m, v)])

\* the accelerators of type t an assignment consumes, in 1/GpuScale units,
\* counted from the gpu_type and gpu_number of the catalog
Consumed(in, eta, t) ==
    Sum([p \in {q \in Pairs(in.variants) : in.variants[q[1]][q[2]].gpu_type = t}
            |-> in.variants[p[1]][p[2]].gpu_number * eta[p]])

-----------------------------------------------------------------------------
(* Claims. *)

\* C1: in every non-empty plan, each model m of required_rates is served: the
\* sum over its variants of max_service_rate * instance_num is at least
\* required_rates[m].
C1_DemandSatisfied ==
    NonEmptyPlan =>
        \A m \in DOMAIN args[1].required_rates :
            ServedRate(m) >= args[1].required_rates[m]

\* a plan that serves a positive demand with nothing to spare
C1_Witness ==
    /\ NonEmptyPlan
    /\ \E m \in DOMAIN args[1].required_rates :
          /\ args[1].required_rates[m] > 0
          /\ ServedRate(m) = args[1].required_rates[m]

\* C2: in every non-empty plan, for each accelerator type t of gpu_limits the
\* accelerators consumed on t (gpu_number * instance_num over the variants of
\* type t) do not exceed gpu_limits[t].
C2_SupplyRespected ==
    NonEmptyPlan =>
        \A t \in DOMAIN args[1].gpu_limits :
            Consumed(args[1], PlanEta, t) <= args[1].gpu_limits[t] * GpuScale

\* a plan that uses the whole supply of a type, with variants of 1.5 and of
\* 0.5 accelerators in the catalog
C2_Witness ==
    /\ NonEmptyPlan
    /\ \E t \in DOMAIN args[1].gpu_limits :
          /\ args[1].gpu_limits[t] > 0
          /\ Consumed(args[1], PlanEta, t) = args[1].gpu_limits[t] * GpuScale

\* C3 as stated: in every non-empty plan, for each accelerator type t of
\* gpu_limits that is the gpu_type of some variant, whatever its unit cost,
\* gpu_after_allocation[t] = gpu_limits[t] - ceiling(consumed[t]) and is >= 0.
C3_RemainingExact ==
    NonEmptyPlan =>
        \A t \in DOMAIN args[1].gpu_limits :
            (\E p \in Pairs(args[1].variants) :
                args[1].variants[p[1]][p[2]].gpu_type = t)
            => /\ t \in DOMAIN result[1].gpu_after_allocation
               /\ result[1].gpu_after_allocation[t]
                    = args[1].gpu_limits[t]
                        - CeilDiv(Consumed(args[1], PlanEta, t), GpuScale)
               /\ result[1].gpu_after_allocation[t] >= 0

\* C4: in every non-empty plan, a (model, variant) with a non-null max_replicas
\* entry (0 included) has instance_num <= the entry, and one with a non-zero
\* min_replicas entry has instance_num >= the entry.
C4_ReplicaBounds ==
    NonEmptyPlan =>
        /\ \A m \in DOMAIN args[1].max_replicas :
             \A v \in DOMAIN args[1].max_replicas[m] :
                args[1].max_replicas[m][v] # None
                    => Replicas(m, v) <= args[1].max_replicas[m][v][1]
        /\ \A m \in DOMAIN args[1].min_replicas :
             \A v \in DOMAIN args[1].min_replicas[m] :
                args[1].min_replicas[m][v] # 0
                    => Replicas(m, v) >= args[1].min_replicas[m][v]

\* a plan under a maximum of 0 on a variant that would otherwise be the
\* cheapest, with a non-zero minimum met on another one
C4_Witness ==
    /\ NonEmptyPlan
    /\ "m1" \in DOMAIN args[1].max_replicas
    /\ args[1].max_replicas["m1"]["a"] = Some(0)
    /\ args[1].required_rates["m1"] > 0
    /\ Replicas("m1", "a") = 0
    /\ \E m \in DOMAIN args[1].min_replicas :
          \E v \in DOMAIN args[1].min_replicas[m] :
             /\ args[1].min_replicas[m][v] > 0
             /\ Replicas(m, v) = args[1].min_replicas[m][v]

\* C5: in every non-empty plan, a model that is not in scale_to_zero and whose
\* replicas in deployed_instances sum to more than 0 gets at least 1 replica.
C5_MinimumOne ==
    NonEmptyPlan =>
        \A m \in DOMAIN args[1].variants :
            (/\ m \notin args[1].scale_to_zero
             /\ Sum(Get(args[1].deployed_instances[1], m, <<>>)) > 0)
            => Sum([v \in DOMAIN args[1].variants[m] |-> Replicas(m, v)]) >= 1

\* a deployed model without demand that is kept at exactly one replica
C5_Witness ==
    /\ NonEmptyPlan
    /\ "m2" \notin args[1].scale_to_zero
    /\ "m2" \in DOMAIN args[1].deployed_instances[1]
    /\ Sum(args[1].deployed_instances[1]["m2"]) > 0
    /\ Get(args[1].required_rates, "m2", 0) = 0
    /\ Sum([v \in DOMAIN args[1].variants["m2"] |-> Replicas("m2", v)]) = 1

\* C6 as stated: with homogeneous = true, in every non-empty plan each model
\* of the catalog, with or without an entry in required_rates, has at most one
\* variant with instance_num > 0.
C6_Homogeneous ==
    (NonEmptyPlan /\ args[1].homogeneous) =>
        \A m \in DOMAIN args[1].variants :
            Cardinality({v \in DOMAIN args[1].variants[m] : Replicas(m, v) > 0}) <= 1

\* the cost of the accelerators an assignment consumes, each type of
\* gpu_limits rounded up to whole accelerators
AccelCost(in, eta) ==
    Sum([t \in DOMAIN in.gpu_limits |->
            Get(in.gpu_cost, t, 0) * CeilDiv(Consumed(in, eta, t), GpuScale)])

\* an assignment that satisfies the demand, supply, replica-bound, minimum-one
\* and homogeneity constraints of the inputs
Admissible(in, eta) ==
    /\ max_replicas_ct(in, eta)
    /\ min_replicas_ct(in, eta)
    /\ sos1(in, eta)
    /\ min_instances_ct(in, eta)
    /\ service_rate_ct(in, eta)
    /\ gpu_limit_ct(in, setups_per_gpu(in), eta)

\* no admissible assignment costs less than the returned plan (none can cost
\* less than 0, the unit costs being non-negative)
CostMinimal ==
    LET cost == AccelCost(args[1], PlanEta)
    IN  \/ cost = 0
        \/ \A eta \in [Pairs(args[1].variants) -> 0..MaxEta] :
               AccelCost(args[1], eta) < cost => ~Admissible(args[1], eta)

C8_InfeasibleEmpty ==
    /\ pc = "solved" =>
          (solution = None <=>
              ~\E eta \in [Pairs(args[1].variants) -> 0..MaxEta] :
                  Admissible(args[1], eta))
    /\ pc = "returned" => (solution = None => result[1] = EmptyResult)

\* the supply is too small for the demand and the empty result came back
C8_Witness ==
    /\ pc = "returned"
    /\ solution = None
    /\ result[1] = EmptyResult
    /\ \E m \in DOMAIN args[1].required_rates : args[1].required_rates[m] > 0
    /\ \A t \in DOMAIN args[1].gpu_limits : args[1].gpu_limits[t] = 0
    /\ args[1].max_replicas = <<>> /\ args[1].min_replicas = <<>>

\* what a freshly constructed optimizer and modeling object can return for in
FreshResults(in) ==
    {AssembleResult(in, s) :
        s \in SolveOutcomes(<<[in |-> in, cts |-> EncodedCts(in)]>>)}

\* C9 as stated: the optimizer holds no state across calls: whatever calls
\* came before on the same optimizer, a call returns what a call with the same
\* inputs returns on a fresh optimizer and modeling object (and raises exactly
\* when that one raises).
C9_Stateless ==
    /\ pc = "returned" => result[1] \in FreshResults(args[1])
    /\ pc = "raised" => RaiseAt(args[1]) # 0
    /\ pc \in {"encoded", "solved", "returned"} => RaiseAt(args[1]) = 0

\* the replica assignment of a returned result
EtaOf(in, res) ==
    [p \in Pairs(in.variants) |->
        res.models_data[p[1]].requiredInstances[p[2]].instance_num]

\* the value the objective gives an assignment: accelerator cost plus
\* change_penalty * max_gpu_cost * the one-sided deviations
PlanValue(in, eta) ==
    AccelCost(in, eta)
    + in.change_penalty * max_gpu_cost(in, setups_per_gpu(in)) * Sum(Delta(in, eta))

\* the call that just returned had the same inputs as the call before it,
\* which returned too
SameInputsTwice ==
    /\ pc = "returned"
    /\ last # None
    /\ last[1].pc = "returned"
    /\ last[1].args = args[1]

\* both runs returned a plan
BothPlans ==
    /\ last[1].result[1].models_data # <<>>
    /\ result[1].models_data # <<>>

\* C10 as stated: two runs on identical inputs yield identical models_data,
\* or, where the solver may pick among several optimal plans, the same total
\* accelerator cost and the same consumed accelerators per type (counted here
\* in whole accelerators, which two runs with the same fractional consumption
\* share too).
C10_SameCostAndConsumed ==
    SameInputsTwice =>
        \/ last[1].result[1].models_data = result[1].models_data
        \/ /\ BothPlans
           /\ AccelCost(args[1], EtaOf(args[1], last[1].result[1]))
                = AccelCost(args[1], PlanEta)
           /\ \A t \in DOMAIN args[1].gpu_limits :
                 CeilDiv(Consumed(args[1], EtaOf(args[1], last[1].result[1]), t),
                         GpuScale)
                    = CeilDiv(Consumed(args[1], PlanEta, t), GpuScale)

\* C10 amended: two runs in a row on identical inputs yield two empty results
\* or two plans with the same objective value (accelerator cost plus change
\* penalty; the accelerator cost itself when change_penalty = 0).
C10_SameValue ==
    SameInputsTwice =>
        \/ /\ last[1].result[1] = EmptyResult
           /\ result[1] = EmptyResult
        \/ /\ BothPlans
           /\ PlanValue(args[1], EtaOf(args[1], last[1].result[1]))
                = PlanValue(args[1], PlanEta)

\* two runs in a row on identical inputs that returned different plans
C10_Witness ==
    /\ SameInputsTwice
    /\ BothPlans
    /\ last[1].result[1].models_data # result[1].models_data

\* a replica assignment over the reference catalog: the listed variants, and
\* 0 for every other variant
RefPlan(nonzero) ==
    [p \in Pairs(RefCatalog) |->
        IF p[2] \in DOMAIN nonzero THEN nonzero[p[2]] ELSE 0]

\* the plan with each model on a single variant
PlanSingle ==
    RefPlan(("flan-a100" :> 2) @@ ("lama80-h100" :> 2) @@ ("lama8-a100+" :> 2)
            @@ ("mistral-h100" :> 2))

\* the plan that keeps both flan variants and lama-8b on the A100+
PlanKeep ==
    RefPlan(("flan-a100" :> 1) @@ ("flan-h100" :> 1) @@ ("lama80-h100" :> 2)
            @@ ("lama8-a100+" :> 2) @@ ("mistral-h100" :> 2))

\* the plan that keeps both flan variants and moves lama-8b partly to the A100
PlanShift ==
    RefPlan(("flan-a100" :> 1) @@ ("flan-h100" :> 1) @@ ("lama80-h100" :> 2)
            @@ ("lama8-a100" :> 2) @@ ("lama8-a100+" :> 1)
            @@ ("mistral-h100" :> 2))

InventoryKeep == ("A100" :> 9) @@ ("A100+" :> 10) @@ ("H100" :> 4)

InventoryShift == ("A100" :> 3) @@ ("A100+" :> 15) @@ ("H100" :> 4)

\* the call for scenario `in` returned
ReturnedFor(in) == pc = "returned" /\ args[1] = in

\* C11: Scenario A returns remaining inventory {A100: 3, A100+: 10, H100: 7}
\* with flan-a100 = 2, lama80-h100 = 2, lama8-a100+ = 2, mistral-h100 = 2 and
\* every other variant 0; no other plan is ever returned for it.
C11_ScenarioA ==
    ReturnedFor(ScenarioA) =>
        /\ NonEmptyPlan
        /\ result[1].gpu_after_allocation
             = ("A100" :> 3) @@ ("A100+" :> 10) @@ ("H100" :> 7)
        /\ PlanEta = PlanSingle

\* Scenario A returned its plan
C11_Witness ==
    /\ ReturnedFor(ScenarioA)
    /\ NonEmptyPlan
    /\ Replicas("google-flan-xl", "flan-a100") = 2

Toggle(in, m) ==
    [in EXCEPT !.scale_to_zero = IF m \in @ THEN @ \ {m} ELSE @ \cup {m}]

C15_ZeroDemand ==
    (/\ pc = "returned"
     /\ \A m \in DOMAIN args[1].required_rates : args[1].required_rates[m] = 0
     /\ args[1].deployed_instances = Some(<<>>)
     /\ \A m \in DOMAIN args[1].min_replicas :
           \A v \in DOMAIN args[1].min_replicas[m] : args[1].min_replicas[m][v] = 0
     /\ \A t \in DOMAIN args[1].gpu_limits : args[1].gpu_limits[t] >= 0)
    => /\ NonEmptyPlan
       /\ \A p \in Pairs(args[1].variants) : PlanEta[p] = 0
       /\ \A t \in DOMAIN args[1].gpu_limits :
             /\ t \in DOMAIN result[1].gpu_after_allocation
             /\ result[1].gpu_after_allocation[t] = args[1].gpu_limits[t]

\* some model has non-zero minimums on two distinct variants
TwoMinimums(in) ==
    \E m \in DOMAIN in.min_replicas :
        \E v, w \in DOMAIN in.min_replicas[m] :
            /\ v # w
            /\ in.min_replicas[m][v] # 0
            /\ in.min_replicas[m][w] # 0

\* C16 as stated: with homogeneous = true, non-zero minimums on two distinct
\* variants of one model of the catalog (with or without a demand entry) make
\* the problem infeasible, and the call returns the empty result.
C16_TwoMinimumsEmpty ==
    (pc = "returned" /\ args[1].homogeneous /\ TwoMinimums(args[1]))
        => result[1] = EmptyResult

\* C17 as stated: in every non-empty plan, each accelerator type of gpu_limits
\* that is the gpu_type of no variant appears in gpu_after_allocation with its
\* full supply, also when other types of the call do have variants.
C17_UnusedTypePassesThrough ==
    NonEmptyPlan =>
        \A t \in DOMAIN args[1].gpu_limits :
            (\A p \in Pairs(args[1].variants) :
                args[1].variants[p[1]][p[2]].gpu_type # t)
            => /\ t \in DOMAIN result[1].gpu_after_allocation
               /\ result[1].gpu_after_allocation[t] = args[1].gpu_limits[t]

\* a negative supply or a negative required rate
Malformed(in) ==
    \/ \E t \in DOMAIN in.gpu_limits : in.gpu_limits[t] < 0
    \/ \E m \in DOMAIN in.required_rates : in.required_rates[m] < 0

\* the inputs with an empty current layout in place of none
WithEmptyLayout(in) == [in EXCEPT !.deployed_instances = Some(<<>>)]

\* C18 as stated: with deployed_instances left at None and a model of the
\* catalog outside scale_to_zero, the call does not raise (for inputs without
\* negative numbers, where the same call with an empty layout does not): it
\* returns an OptimizationResult, that of a call in which no model is subject
\* to the minimum-one rule.
C18_LayoutOptional ==
    (/\ args # None
     /\ args[1].deployed_instances = None
     /\ \E m \in DOMAIN args[1].variants : m \notin args[1].scale_to_zero
     /\ RaiseAt(WithEmptyLayout(args[1])) = 0
     /\ ~Malformed(args[1]))
    => /\ pc # "raised"
       /\ pc = "returned" => result[1] \in FreshResults(WithEmptyLayout(args[1]))

\* C19 as stated: an input with a negative supply or a negative required rate
\* (and nothing else in it that makes the encoder raise) is rejected before
\* encoding: the call raises, nothing is added to the model, and neither a
\* plan nor the empty result is returned.
C19_RejectsNegative ==
    (args # None /\ Malformed(args[1]) /\ RaiseAt(args[1]) = 0)
        => /\ pc \in {"encode", "raised"}
           /\ mdl = <<>>

\* a replica bound names a (model, variant) pair the catalog does not have
AbsentBound(in) ==
    \/ \E m \in DOMAIN in.max_replicas : \E v \in DOMAIN in.max_replicas[m] :
          <<m, v>> \notin Pairs(in.variants)
    \/ \E m \in DOMAIN in.min_replicas : \E v \in DOMAIN in.min_replicas[m] :
          <<m, v>> \notin Pairs(in.variants)

\* a non-null maximum or a non-zero minimum names such a pair
AbsentBoundSet(in) ==
    \/ \E m \in DOMAIN in.max_replicas : \E v \in DOMAIN in.max_replicas[m] :
          <<m, v>> \notin Pairs(in.variants) /\ in.max_replicas[m][v] # None
    \/ \E m \in DOMAIN in.min_replicas : \E v \in DOMAIN in.min_replicas[m] :
          <<m, v>> \notin Pairs(in.variants) /\ in.min_replicas[m][v] # 0

-----------------------------------------------------------------------------
(* Shape of the result, degenerate supply, and placement.                  *)

\* the models_data of the result lists every model of the catalog and, under
\* each, every variant of the model with its static attributes
WholePlan(in, res) ==
    /\ DOMAIN res.models_data = DOMAIN in.variants
    /\ \A m \in DOMAIN in.variants :
          /\ DOMAIN res.models_data[m] = {"requiredInstances"}
          /\ DOMAIN res.models_data[m].requiredInstances = DOMAIN in.variants[m]
          /\ \A v \in DOMAIN in.variants[m] :
                LET d == res.models_data[m].requiredInstances[v]
                IN  /\ d.instance_num \in Nat
                    /\ d.gpu_type = in.variants[m][v].gpu_type
                    /\ d.gpu_number = in.variants[m][v].gpu_number

\* the four diagnostic lists of the result are there and empty
NoDiagnostics(res) ==
    /\ {"impossible_models", "strange_models", "missing_models",
        "impossible_instances"} \subseteq DOMAIN res
    /\ res.impossible_models = <<>>
    /\ res.strange_models = <<>>
    /\ res.missing_models = <<>>
    /\ res.impossible_instances = <<>>

\* C21: every returned result is all-or-nothing: models_data lists every
\* model of the catalog with every one of its variants (those at zero
\* replicas too) and the variant's gpu_type and gpu_number, or models_data and
\* gpu_after_allocation are both empty; the four diagnostic lists are present
\* and empty either way.
C21_AllOrNothing ==
    Returned =>
        /\ \/ WholePlan(args[1], result[1])
           \/ /\ result[1].models_data = <<>>
              /\ result[1].gpu_after_allocation = <<>>
        /\ NoDiagnostics(result[1])

\* a plan was returned that lists a variant at zero replicas next to one with
\* replicas
C21_Witness ==
    /\ NonEmptyPlan
    /\ \E p \in Pairs(args[1].variants) : Replicas(p[1], p[2]) = 0
    /\ \E p \in Pairs(args[1].variants) : Replicas(p[1], p[2]) > 0

\* calls whose supply names no accelerator type of the catalog: the supply
\* is empty, or is of a type C that no variant runs on
DegenerateLimitChoices == {[C |-> 2], <<>>}

DegenerateInputs ==
    [variants : {Catalog},
     required_rates : {[m1 |-> 2, m2 |-> 2], [m1 |-> 2], <<>>},
     gpu_limits : DegenerateLimitChoices, gpu_cost : {[A |-> 10, B |-> 13]},
     scale_to_zero : {{}, {"m1", "m2"}},
     deployed_instances : {Some(<<>>)},
     change_penalty : {0}, homogeneous : {FALSE},
     max_replicas : {<<>>}, min_replicas : {<<>>}]

\* one call on a fresh optimizer
NextDegenerate ==
    \/ \E in \in DegenerateInputs : FirstCall(in)
    \/ Encode
    \/ Solve
    \/ Assemble

SpecDegenerate == Init /\ [][NextDegenerate]_vars

\* no accelerator type of gpu_limits is the gpu_type of a variant
Degenerate(in) == DOMAIN setups_per_gpu(in) = {}

\* C22: when no accelerator type of gpu_limits is the gpu_type of any
\* variant, the call returns the empty result or a plan with every variant at
\* 0 replicas whose gpu_after_allocation is the input supply.
C22_DegenerateNoReplicas ==
    (Returned /\ Degenerate(args[1])) =>
        \/ result[1] = EmptyResult
        \/ /\ \A p \in Pairs(args[1].variants) : Replicas(p[1], p[2]) = 0
           /\ result[1].gpu_after_allocation = args[1].gpu_limits

\* C28: in every returned plan a variant whose gpu_type is not a key of
\* gpu_limits has instance_num = 0.
C28_NoReplicaOffSupply ==
    NonEmptyPlan =>
        \A p \in Pairs(args[1].variants) :
            args[1].variants[p[1]][p[2]].gpu_type \notin DOMAIN args[1].gpu_limits
                => Replicas(p[1], p[2]) = 0

-----------------------------------------------------------------------------
(* The change penalty and the minimum-one rule.                            *)

\* the sum, over the (model, variant) pairs the current layout lists, of the
\* replicas added where the layout serves the demand of the model (a missing
\* demand counts as 0), and of the replicas removed where it does not
OneSidedDeviation(in, eta) ==
    LET dep == in.deployed_instances[1]
        serves(m) ==
            Sum([v \in DOMAIN dep[m] |->
                    dep[m][v] * in.variants[m][v].max_service_rate])
                >= Get(in.required_rates, m, 0)
        listed == UNION {{<<m, v>> : v \in DOMAIN dep[m]} : m \in DOMAIN dep}
    IN  Sum([k \in listed |->
                IF serves(k[1])
                THEN Max({0, eta[k] - dep[k[1]][k[2]]})
                ELSE Max({0, dep[k[1]][k[2]] - eta[k]})])

\* accelerator cost plus change_penalty * max_gpu_cost * one-sided deviation
PenalizedCost(in, eta) ==
    AccelCost(in, eta)
    + in.change_penalty * max_gpu_cost(in, setups_per_gpu(in))
        * OneSidedDeviation(in, eta)

\* C24: with change_penalty > 0 and a positive maximum eligible unit cost, no
\* admissible assignment has a smaller accelerator cost plus change_penalty *
\* max_gpu_cost * one-sided deviation than the returned plan.
C24_PenalizedCostMinimal ==
    (/\ NonEmptyPlan
     /\ args[1].change_penalty > 0
     /\ max_gpu_cost(args[1], setups_per_gpu(args[1])) > 0) =>
        LET value == PenalizedCost(args[1], PlanEta)
        IN  \/ value = 0
            \/ \A eta \in [Pairs(args[1].variants) -> 0..MaxEta] :
                   PenalizedCost(args[1], eta) < value => ~Admissible(args[1], eta)

\* the penalty decided the plan: the returned plan keeps the replicas of the
\* current layout although an admissible assignment has cheaper accelerators
C24_Witness ==
    /\ NonEmptyPlan
    /\ args[1].change_penalty > 0
    /\ max_gpu_cost(args[1], setups_per_gpu(args[1])) > 0
    /\ OneSidedDeviation(args[1], PlanEta) = 0
    /\ \E eta \in [Pairs(args[1].variants) -> 0..MaxEta] :
          /\ Admissible(args[1], eta)
          /\ AccelCost(args[1], eta) < AccelCost(args[1], PlanEta)
          /\ OneSidedDeviation(args[1], eta) > 0

\* model m is not in scale_to_zero, the current layout has no replica of it,
\* its demand is zero or missing, and min_replicas has no non-zero entry for it
Idle(in, m) ==
    /\ m \notin in.scale_to_zero
    /\ Sum(Get(in.deployed_instances[1], m, [a |-> 0])) = 0
    /\ Get(in.required_rates, m, 0) = 0
    /\ \A v \in DOMAIN Get(in.min_replicas, m, <<>>) : in.min_replicas[m][v] = 0

\* the assignment eta with every variant of model m at 0
Without(in, eta, m) ==
    [p \in Pairs(in.variants) |-> IF p[1] = m THEN 0 ELSE eta[p]]

-----------------------------------------------------------------------------
(* The order of the steps of a call, and calls in a row on one optimizer.  *)

\* one step of a call keeps the order encode, solve, assemble
StepInOrder ==
    /\ pc = "encode" => pc' \in {"encoded", "raised"}
    /\ pc = "encoded" => pc' = "solved"
    /\ pc = "solved" => pc' = "returned"
    \* the model is written before solve only
    /\ mdl' # mdl => pc = "encode"
    \* solve is invoked from the encoded model only, once per call
    /\ nsolve' # nsolve => \/ pc = "encoded" /\ nsolve' = nsolve + 1
                           \/ pc' = "encode" /\ nsolve' = 0
    /\ pc' = "returned" => nsolve' = 1
    /\ pc' \in {"encode", "encoded", "raised"} => nsolve' = 0
    \* a result is built after solve only: from the solution if there is one,
    \* and without reading a value if there is none
    /\ result' # result =>
          \/ pc' = "encode" /\ result' = None
          \/ /\ pc = "solved"
             /\ solution' = solution
             /\ solution = None => result' = Some(EmptyResult)
             /\ solution # None =>
                   EtaOf(args[1], result'[1]) = solution[1].eta

\* C26: within one call the steps run in the order encode, solve, assemble:
\* the model is written before solve only, solve is invoked exactly once per
\* call, and the result is read from the solution after solve, or is the empty
\* result when solve gave none.
C26_StepOrder == [][StepInOrder]_vars

\* a second call on the optimizer returned after a single solve that gave no
\* solution
C26_Witness ==
    /\ pc = "returned"
    /\ ncalls = 2
    /\ nsolve = 1
    /\ solution = None
    /\ result[1] = EmptyResult

\* every earlier call on this optimizer went through the encoder and left
\* constraints that can be satisfied
EarlierFeasible ==
    \A i \in 1..(Len(mdl) - 1) :
        /\ RaiseAt(mdl[i].in) = 0
        /\ Feasible(mdl[i])

\* C27: when every earlier call on the optimizer was feasible, a later call
\* returns what a fresh optimizer can return for the same inputs, and a
\* returned plan has the optimal objective value of the fresh optimizer.
C27_ReuseAfterFeasible ==
    (pc = "returned" /\ ncalls >= 2 /\ EarlierFeasible) =>
        /\ result[1] \in FreshResults(args[1])
        /\ \A r \in FreshResults(args[1]) :
              /\ r.models_data # <<>> <=> result[1].models_data # <<>>
              /\ r.models_data # <<>> =>
                    PlanValue(args[1], EtaOf(args[1], r))
                        = PlanValue(args[1], PlanEta)

\* a second call with other inputs than the first returned a plan, after a
\* first call that returned a plan too
C27_Witness ==
    /\ NonEmptyPlan
    /\ ncalls = 2
    /\ EarlierFeasible
    /\ last[1].pc = "returned"
    /\ last[1].result[1].models_data # <<>>
    /\ last[1].args # args[1]

-----------------------------------------------------------------------------
(* The current layout without a change penalty.                            *)

\* current layouts to compare a call with
LayoutAlternatives ==
    {Some(<<>>), Some([m1 |-> [a |-> 0]]), Some([m2 |-> [c |-> 0, d |-> 0]]),
     Some([m1 |-> [b |-> 1]]), Some([m1 |-> [a |-> 2]]),
     Some([m1 |-> [a |-> 1, b |-> 1], m2 |-> [c |-> 0, d |-> 1]]),
     Some([m1 |-> [a |-> 2], m2 |-> [c |-> 1]])}

\* the models with a positive current total in a layout
Active(in, dep) ==
    {m \in DOMAIN in.variants : Sum(Get(dep[1], m, [a |-> 0])) > 0}

\* the calls that differ from in in deployed_instances only, with the same
\* models at a positive current total
SamePattern(in) ==
    {[in EXCEPT !.deployed_instances = d] :
        d \in {e \in LayoutAlternatives :
                  Active(in, e) = Active(in, in.deployed_instances)}}

\* what one call on a fresh optimizer leaves in the model
Generation(in) == [in |-> in, cts |-> EncodedCts(in)]

\* C29: with change_penalty = 0, a call and every call that differs from it
\* only in a deployed_instances with the same models at a positive current
\* total have the same feasible plans and the same optimal results.
C29_LayoutOnlyThroughMinimumOne ==
    (/\ pc = "encoded"
     /\ args[1].change_penalty = 0
     /\ args[1].deployed_instances # None) =>
        \A in2 \in SamePattern(args[1]) :
            /\ RaiseAt(in2) = 0
            /\ FeasibleEtas(Generation(in2)) = FeasibleEtas(Generation(args[1]))
            /\ FreshResults(in2) = FreshResults(args[1])

\* the call has a deployed model without demand, which the minimum-one rule
\* keeps active, and another layout with the same active models exists
C29_Witness ==
    /\ pc = "encoded"
    /\ args[1].change_penalty = 0
    /\ args[1].deployed_instances # None
    /\ \E m \in Active(args[1], args[1].deployed_instances) :
          /\ m \notin args[1].scale_to_zero
          /\ Get(args[1].required_rates, m, 0) = 0
    /\ \E in2 \in SamePattern(args[1]) : in2 # args[1]
    /\ FeasibleEtas(Generation(args[1])) # {}

-----------------------------------------------------------------------------
(* The file transport: connect_with_files of cmd_folder/autoscaler.py.     *)
(* The process is started with some arguments; the input file is missing,  *)
(* is not JSON, or holds a JSON document (a dict, some keys possibly left  *)
(* out; a JSON null is None); the output path can be opened for writing or *)
(* not, and may hold a file from before.                                   *)

\* the fields of VariantData
VariantFields ==
    {"variant_id", "gpu_type", "gpu_number", "role", "slo_class",
     "max_service_rate", "max_concurrency"}

\* VariantData(**variant_data) raises TypeError unless the keys are the fields
convert_variants_raises(raw_variants) ==
    \E m \in DOMAIN raw_variants : \E v \in DOMAIN raw_variants[m] :
        DOMAIN raw_variants[m][v] # VariantFields

\* every raw dict becomes a VariantData with the same field values
convert_variants(raw_variants) ==
    [m \in DOMAIN raw_variants |->
        [v \in DOMAIN raw_variants[m] |->
            [f \in VariantFields |-> raw_variants[m][v][f]]]]

\* the dict of the six fields of an OptimizationResult, InstancesData tuples
\* turned into dicts
optimization_result_to_dict(opt_res) ==
    [gpu_after_allocation |-> opt_res.gpu_after_allocation,
     models_data |->
        [m \in DOMAIN opt_res.models_data |->
            [requiredInstances |->
                [v \in DOMAIN opt_res.models_data[m].requiredInstances |->
                    LET inst == opt_res.models_data[m].requiredInstances[v]
                    IN  [instance_num |-> inst.instance_num,
                         gpu_type |-> inst.gpu_type,
                         gpu_number |-> inst.gpu_number]]]],
     impossible_models |-> opt_res.impossible_models,
     strange_models |-> opt_res.strange_models,
     missing_models |-> opt_res.missing_models,
     impossible_instances |-> opt_res.impossible_instances]

\* a raw variant as the input file spells it
RawVariant(id, type, number, rate) ==
    [variant_id |-> id, gpu_type |-> type, gpu_number |-> number,
     role |-> "default", slo_class |-> "standard", max_service_rate |-> rate,
     max_concurrency |-> 5]

RawCatalog ==
    [m1 |-> [a |-> RawVariant("a", "A", 2, 2), b |-> RawVariant("b", "B", 3, 3)],
     m2 |-> [c |-> RawVariant("c", "A", 1, 2), d |-> RawVariant("d", "B", 2, 2)]]

\* the document with the four required keys only
BaseDocument ==
    [variants_data |-> RawCatalog,
     required_service_rates |-> [m1 |-> 2, m2 |-> 2],
     gpu_limits |-> [A |-> 3, B |-> 3],
     gpu_cost |-> [A |-> 10, B |-> 13]]

\* the content of an input file that is not JSON
NotJson == [not_json |-> TRUE]

\* the content of an output file left by an earlier run
FromBefore == [from_before |-> TRUE]

\* the input files: missing, not JSON, or a document
InputFiles ==
    {None, Some(NotJson), Some(BaseDocument),
     \* every key given
     Some(BaseDocument @@
          [scale_to_zero |-> {"m2"}, deployed_instances |-> Some(<<>>),
           min_replicas |-> [m1 |-> [a |-> 1]],
           max_replicas |-> [m1 |-> [b |-> Some(0)]]]),
     \* no supply: no feasible plan
     Some([BaseDocument EXCEPT !.gpu_limits = [A |-> 0, B |-> 0]]),
     \* a required key left out
     Some([k \in DOMAIN BaseDocument \ {"gpu_cost"} |-> BaseDocument[k]]),
     \* a variant without max_service_rate
     Some([BaseDocument EXCEPT !.variants_data.m1.a =
              [f \in VariantFields \ {"max_service_rate"} |-> RawCatalog.m1.a[f]]]),
     \* a minimum on a variant the catalog does not have
     Some(BaseDocument @@ [min_replicas |-> [m1 |-> [z |-> 1]]]),
     \* "deployed_instances": null
     Some(BaseDocument @@ [deployed_instances |-> None])}

\* the states a process can start in; argc is len(sys.argv)
CliStarts ==
    [step : {"start"}, argc : {2, 3, 4}, input : InputFiles,
     writable : BOOLEAN, output : {None, Some(FromBefore)},
     exit : {None}]

\* lines 57-64: what reading the input file raises, if anything
LoadRaises(c) ==
    CASE c.input = None -> Some("FileNotFoundError")
      [] c.input = Some(NotJson) -> Some("JSONDecodeError")
      [] "variants_data" \notin DOMAIN c.input[1] -> Some("KeyError")
      [] convert_variants_raises(c.input[1].variants_data) -> Some("TypeError")
      [] OTHER -> None

\* lines 68-77: what the evaluation of the arguments of the call raises
ArgumentsRaise(data) ==
    IF {"required_service_rates", "gpu_limits", "gpu_cost"} \subseteq DOMAIN data
    THEN None
    ELSE Some("KeyError")

\* lines 60-77: the arguments of get_optimal_gpu_allocation read from the
\* document; change_penalty and homogeneous are left at their defaults
Arguments(data) ==
    [variants |-> convert_variants(data.variants_data),
     required_rates |-> data.required_service_rates,
     gpu_limits |-> data.gpu_limits,
     gpu_cost |-> data.gpu_cost,
     scale_to_zero |-> Get(data, "scale_to_zero", {}),
     deployed_instances |-> Get(data, "deployed_instances", Some(<<>>)),
     change_penalty |-> 0,
     homogeneous |-> FALSE,
     max_replicas |-> Get(data, "max_replicas", <<>>),
     min_replicas |-> Get(data, "min_replicas", <<>>)]

\* Handler without the envelope: the process exits with code 1 and writes
\* nothing
Handler_silent(c, message) ==
    [c EXCEPT !.step = "done", !.exit = Some(1)]

\* lines 88-96, the except branch: the error envelope is written and the
\* process exits with code 1; when the output file cannot be opened, open
\* raises inside the handler and the interpreter ends the process with code 1
Handler(c, message) ==
    IF c.writable
    THEN [c EXCEPT !.step = "done", !.exit = Some(1),
                   !.output = Some([error |-> message, is_success |-> FALSE])]
    ELSE [c EXCEPT !.step = "done", !.exit = Some(1)]

\* lines 47-49: a wrong number of arguments
CliUsage ==
    /\ cli # None /\ cli[1].step = "start"
    /\ cli[1].argc # 3
    /\ cli' = Some([cli[1] EXCEPT !.step = "done", !.exit = Some(1)])
    /\ UNCHANGED <<mdl, pc, args, solution, result, ncalls, nsolve, last, go>>

\* lines 57-64 or 68-77 raise before the optimizer is called
CliLoadFails ==
    /\ cli # None /\ cli[1].step = "start"
    /\ cli[1].argc = 3
    /\ pc = "idle"
    /\ LET e == IF LoadRaises(cli[1]) # None THEN LoadRaises(cli[1])
                ELSE ArgumentsRaise(cli[1].input[1])
       IN  /\ e # None
           /\ cli' = Some(Handler(cli[1], e[1]))
    /\ UNCHANGED <<mdl, pc, args, solution, result, ncalls, nsolve, last, go>>

\* lines 57-77: the document is read and the optimizer, constructed at lines
\* 66-67, is called
CliCall ==
    /\ cli # None /\ cli[1].step = "start"
    /\ cli[1].argc = 3
    /\ pc = "idle"
    /\ LoadRaises(cli[1]) = None
    /\ ArgumentsRaise(cli[1].input[1]) = None
    /\ FirstCall(Arguments(cli[1].input[1]))

\* lines 79-86: the result is written; when the output file cannot be opened
\* the except branch runs
CliWrite ==
    /\ cli # None /\ cli[1].step = "start"
    /\ pc = "returned"
    /\ cli' = IF cli[1].writable
              THEN Some([cli[1] EXCEPT
                            !.step = "done", !.exit = Some(0),
                            !.output = Some(optimization_result_to_dict(result[1]))])
              ELSE Some(Handler(cli[1], "PermissionError"))
    /\ UNCHANGED <<mdl, pc, args, solution, result, ncalls, nsolve, last, go>>

\* lines 88-96: the call raised
CliError ==
    /\ cli # None /\ cli[1].step = "start"
    /\ pc = "raised"
    /\ cli' = Some(Handler(cli[1], "KeyError or AttributeError"))
    /\ UNCHANGED <<mdl, pc, args, solution, result, ncalls, nsolve, last, go>>

InitFiles ==
    /\ Fresh
    /\ cli \in {Some(c) : c \in CliStarts}
    /\ go = None

NextFiles ==
    \/ CliUsage
    \/ CliLoadFails
    \/ CliCall
    \/ Encode
    \/ Solve
    \/ Assemble
    \/ CliWrite
    \/ CliError

SpecFiles == InitFiles /\ [][NextFiles]_vars

\* the six fields of a result
ResultFields ==
    {"gpu_after_allocation", "models_data", "impossible_models",
     "strange_models", "missing_models", "impossible_instances"}

\* the process ended with the serialized result in the output file and
\* without an error exit
EndedWithResult ==
    /\ pc = "returned"
    /\ cli[1].output = Some(optimization_result_to_dict(result[1]))
    /\ DOMAIN cli[1].output[1] = ResultFields
    /\ cli[1].exit = Some(0)

\* an exception occurred: reading the input, in the call, or writing the
\* output
ExceptionOccurred ==
    \/ LoadRaises(cli[1]) # None
    \/ ArgumentsRaise(cli[1].input[1]) # None
    \/ pc = "raised"
    \/ ~cli[1].writable

\* the process ended with the error envelope in the output file and exit
\* code 1
EndedWithEnvelope ==
    /\ ExceptionOccurred
    /\ cli[1].output # None
    /\ cli[1].output[1] # FromBefore
    /\ DOMAIN cli[1].output[1] = {"error", "is_success"}
    /\ cli[1].output[1].error # ""
    /\ cli[1].output[1].is_success = FALSE
    /\ cli[1].exit = Some(1)

\* with a wrong argument count: exit code 1, and the output path is as it was
EndedWithUsage ==
    /\ cli[1].exit = Some(1)
    /\ cli[1].output \in {None, Some(FromBefore)}
    /\ pc = "idle"

\* C23 as stated: once given exactly two path arguments, connect_with_files
\* ends with the serialized six-field result in the output file and no error
\* exit, or with an exception, the error envelope in the output file and exit
\* code 1; with a wrong argument count it exits with code 1 and writes no
\* output file.
C23_TwoEndStates ==
    (cli # None /\ cli[1].step = "done") =>
        IF cli[1].argc = 3
        THEN EndedWithResult \/ EndedWithEnvelope
        ELSE EndedWithUsage

\* C23 amended: the same, for an output file that can be opened for writing;
\* when it cannot, the process ends with exit code 1 and the output path as it
\* was.
C23_TwoEndStatesWritable ==
    (cli # None /\ cli[1].step = "done") =>
        IF cli[1].argc # 3 THEN EndedWithUsage
        ELSE IF cli[1].writable THEN EndedWithResult \/ EndedWithEnvelope
        ELSE /\ cli[1].exit = Some(1)
             /\ cli[1].output \in {None, Some(FromBefore)}

\* the process ended after writing the empty result of an infeasible problem
\* over a file from before
C23_Witness ==
    /\ cli # None /\ cli[1].step = "done"
    /\ cli[1].argc = 3
    /\ EndedWithResult
    /\ solution = None
    /\ cli[1].output[1].models_data = <<>>

-----------------------------------------------------------------------------
(* The bridge to the Go controller: main of                                *)
(* cmd_folder/go_autoscaler_wrapper.py.  go_data is the JSON document the  *)
(* controller wrote.  A setup_id, the string "<acc>-<i>", is the pair      *)
(* <<acc, i>>; a decimal string is the sequence of its characters; rates   *)
(* are in tenths of a request per second, so that the floor of 0.1 of      *)
(* calculate_max_service_rate is 1.                                        *)

\* float(s) of a string of digits; None where float raises ValueError
ParseFloat(str) ==
    LET digit == [c \in {"0", "1", "2", "3", "4", "5", "6", "7", "8", "9"} |->
                     CASE c = "0" -> 0 [] c = "1" -> 1 [] c = "2" -> 2
                       [] c = "3" -> 3 [] c = "4" -> 4 [] c = "5" -> 5
                       [] c = "6" -> 6 [] c = "7" -> 7 [] c = "8" -> 8
                       [] c = "9" -> 9]
        value[n \in 0..Len(str)] ==
            IF n = 0 THEN 0 ELSE 10 * value[n - 1] + digit[str[n]]
    IN  IF str # <<>> /\ \A n \in 1..Len(str) : str[n] \in DOMAIN digit
        THEN Some(value[Len(str)])
        ELSE None

\* 1000 / (alpha + beta * atTokens) requests per second, at least 0.1; 1.0
\* when the division raises
calculate_max_service_rate(acc_profile) ==
    LET d == acc_profile.alpha + acc_profile.beta * acc_profile.atTokens
    IN  IF d = 0 THEN 10 ELSE Max({10000 \div d, 1})

\* the last VariantAutoscaling of each modelID that has accelerator profiles
\* gives the setups of the model
extract_variants_from_go(go_data) ==
    LET vas == Get(go_data, "variant_autoscalings", <<>>)
        filled == {n \in 1..Len(vas) :
                      vas[n].spec.modelProfile.accelerators # <<>>}
        lastOf(m) == Max({n \in filled : vas[n].spec.modelID = m})
    IN  [m \in {vas[n].spec.modelID : n \in filled} |->
            LET accs == vas[lastOf(m)].spec.modelProfile.accelerators
            IN  [v \in {<<accs[k].acc, k - 1>> : k \in 1..Len(accs)} |->
                    LET acc_profile == accs[v[2] + 1]
                    IN  [variant_id |-> v,
                         gpu_type |-> acc_profile.acc,
                         gpu_number |-> acc_profile.accCount * GpuScale,
                         role |-> "inference",
                         slo_class |-> "default",
                         max_service_rate |-> calculate_max_service_rate(acc_profile),
                         max_concurrency |-> acc_profile.maxBatchSize]]]

\* RequiredPrefillQPS + RequiredDecodeQPS over the allocations of each model,
\* for the models where that is positive
extract_service_rates_from_analysis(go_data) ==
    LET model_analysis == Get(go_data, "model_analysis", <<>>)
        total_rate(m) ==
            LET allocations == Get(model_analysis[m], "allocations", <<>>)
            IN  Sum([a \in DOMAIN allocations |->
                        Get(allocations[a], "RequiredPrefillQPS", 0)
                        + Get(allocations[a], "RequiredDecodeQPS", 0)])
    IN  [m \in {k \in DOMAIN model_analysis : total_rate(k) > 0} |-> total_rate(m)]

\* the Count of each gpu model summed over the nodes
extract_gpu_limits_from_inventory(go_data) ==
    LET inventory == Get(go_data, "cluster_inventory", <<>>)
    IN  [g \in UNION {DOMAIN inventory[n] : n \in DOMAIN inventory} |->
            Sum([n \in {k \in DOMAIN inventory : g \in DOMAIN inventory[k]} |->
                    Get(inventory[n][g], "Count", 0)])]

\* float of the "cost" property of each accelerator, 0.0 where it is no number
extract_gpu_costs_from_config(go_data) ==
    LET acc_config == Get(go_data, "accelerator_config", <<>>)
    IN  [a \in DOMAIN acc_config |->
            LET cost == ParseFloat(Get(acc_config[a], "cost", <<"0">>))
            IN  IF cost # None THEN cost[1] ELSE 0]

\* transform_go_input_to_python, then the arguments run_optimization passes
transform_go_input_to_python(go_data) ==
    [variants |-> extract_variants_from_go(go_data),
     required_rates |-> extract_service_rates_from_analysis(go_data),
     gpu_limits |-> extract_gpu_limits_from_inventory(go_data),
     gpu_cost |-> extract_gpu_costs_from_config(go_data),
     scale_to_zero |-> {},
     deployed_instances |-> Some(<<>>),
     change_penalty |-> 0,
     homogeneous |-> FALSE,
     max_replicas |-> <<>>,
     min_replicas |-> <<>>]

\* lines 299-349 for one VariantAutoscaling: the replicas of its model summed
\* over the setups and the gpu_type of the first setup, when the sum is > 0
OptimizedAlloc(opt_result, va) ==
    LET model_id == va.spec.modelID
    IN  IF opt_result.models_data # <<>> /\ model_id \in DOMAIN opt_result.models_data
        THEN LET required == opt_result.models_data[model_id].requiredInstances
                 total_replicas ==
                     Sum([v \in DOMAIN required |-> required[v].instance_num])
                 first == CHOOSE v \in DOMAIN required :
                              \A w \in DOMAIN required : v[2] <= w[2]
             IN  IF total_replicas > 0
                 THEN Some([accelerator |-> required[first].gpu_type,
                            numReplicas |-> total_replicas])
                 ELSE None
        ELSE None

\* the output for the Go controller: optimized_allocations keyed by the name
\* of the VariantAutoscaling, a later one of the same name replacing an
\* earlier one (the time stamps are left out)
transform_python_output_for_go(opt_result, go_variant_autoscalings) ==
    LET vas == go_variant_autoscalings
        emitted == {n \in 1..Len(vas) : OptimizedAlloc(opt_result, vas[n]) # None}
        lastOf(name) == Max({n \in emitted : vas[n].metadata.name = name})
    IN  [optimized_allocations |->
            [name \in {vas[n].metadata.name : n \in emitted} |->
                OptimizedAlloc(opt_result, vas[lastOf(name)])[1]],
         raw_optimization_result |-> Some(optimization_result_to_dict(opt_result)),
         success |-> TRUE,
         error |-> ""]

\* an accelerator profile of rate 2.0 on one accelerator
AccProfile(acc) ==
    [acc |-> acc, accCount |-> 1, alpha |-> 100, beta |-> 4, atTokens |-> 100,
     maxBatchSize |-> 8]

VariantAutoscaling(name, namespace, model_id, accelerators) ==
    [metadata |-> [name |-> name, namespace |-> namespace],
     spec |-> [modelID |-> model_id,
               modelProfile |-> [accelerators |-> accelerators]]]

\* the lists of VariantAutoscalings: one model; two models; two that share
\* the modelID m1; two of the same name in two namespaces; one without
\* accelerator profiles; none
VariantAutoscalingChoices ==
    LET va1 == VariantAutoscaling("va1", "ns", "m1", <<AccProfile("B"), AccProfile("A")>>)
        va2 == VariantAutoscaling("va2", "ns", "m2", <<AccProfile("A")>>)
        va3 == VariantAutoscaling("va3", "ns", "m1", <<AccProfile("A")>>)
        va4 == VariantAutoscaling("va1", "other", "m2", <<AccProfile("A")>>)
        va5 == VariantAutoscaling("va5", "ns", "m3", <<>>)
    IN  {<<va1>>, <<va1, va2>>, <<va1, va3>>, <<va3, va1>>, <<va1, va4>>,
         <<va2, va5>>, <<>>}

\* demand in tenths of a request per second
Analysis(rates) ==
    [m \in DOMAIN rates |->
        [allocations |->
            [A |-> [RequiredPrefillQPS |-> rates[m], RequiredDecodeQPS |-> 0]]]]

GoData ==
    [variant_autoscalings : VariantAutoscalingChoices,
     model_analysis : {Analysis([m1 |-> 20]), Analysis([m1 |-> 20, m2 |-> 20]),
                       Analysis([m1 |-> 0, m2 |-> 30]), Analysis([m3 |-> 20])},
     cluster_inventory : {[n1 |-> [A |-> [Count |-> 2], B |-> [Count |-> 1]],
                           n2 |-> [A |-> [Count |-> 1]]],
                          [n1 |-> [A |-> [Count |-> 0]]]},
     accelerator_config : {[A |-> [cost |-> <<"1", "0">>], B |-> [cost |-> <<"1", "3">>]],
                           [A |-> [cost |-> <<"x">>], B |-> [cost |-> <<"1", "3">>]]}]

\* lines 363-375: the document is transformed and the optimizer constructed
\* and called
GoCall ==
    /\ go # None /\ go[1].step = "start"
    /\ pc = "idle"
    /\ FirstCall(transform_go_input_to_python(go[1].data))

\* lines 377-386: the result is transformed and written
GoTransform ==
    /\ go # None /\ go[1].step = "start"
    /\ pc = "returned"
    /\ go' = Some([go[1] EXCEPT
                      !.step = "done", !.exit = Some(0),
                      !.output = Some(transform_python_output_for_go(
                                         result[1],
                                         Get(go[1].data, "variant_autoscalings", <<>>)))])
    /\ UNCHANGED <<mdl, pc, args, solution, result, ncalls, nsolve, last, cli>>

\* lines 389-404, the except branch: the error output is written and the
\* process exits with code 1
GoError ==
    /\ go # None /\ go[1].step = "start"
    /\ pc = "raised"
    /\ go' = Some([go[1] EXCEPT
                      !.step = "done", !.exit = Some(1),
                      !.output = Some([optimized_allocations |-> <<>>,
                                       raw_optimization_result |-> None,
                                       success |-> FALSE,
                                       error |-> "KeyError"])])
    /\ UNCHANGED <<mdl, pc, args, solution, result, ncalls, nsolve, last, cli>>

\* the process has read go_data from its input file
InitGo ==
    /\ Fresh
    /\ cli = None
    /\ go \in {Some([step |-> "start", data |-> d, output |-> None, exit |-> None]) :
                  d \in GoData}

NextGo ==
    \/ GoCall
    \/ Encode
    \/ Solve
    \/ Assemble
    \/ GoTransform
    \/ GoError

SpecGo == InitGo /\ [][NextGo]_vars

\* the replicas the plan gives model m, over all its setups
TotalReplicas(res, m) ==
    IF res.models_data # <<>> /\ m \in DOMAIN res.models_data
    THEN Sum([v \in DOMAIN res.models_data[m].requiredInstances |->
                 res.models_data[m].requiredInstances[v].instance_num])
    ELSE 0

\* C30: transform_python_output_for_go emits an OptimizedAlloc for a
\* VariantAutoscaling exactly when its model has more than 0 replicas in the
\* plan; the accelerator it reports is one on which that model has at least
\* one replica; and numReplicas summed over the emitted allocations is the
\* total number of replicas in the plan.
C30_AllocationsMatchPlan ==
    (go # None /\ go[1].step = "done" /\ pc = "returned") =>
        LET vas == go[1].data.variant_autoscalings
            out == go[1].output[1].optimized_allocations
            res == result[1]
        IN  /\ \A n \in 1..Len(vas) :
                  vas[n].metadata.name \in DOMAIN out
                      <=> TotalReplicas(res, vas[n].spec.modelID) > 0
            /\ \A n \in 1..Len(vas) :
                  vas[n].metadata.name \in DOMAIN out =>
                      \E v \in DOMAIN res.models_data[vas[n].spec.modelID].requiredInstances :
                          LET d == res.models_data[vas[n].spec.modelID].requiredInstances[v]
                          IN  /\ d.gpu_type = out[vas[n].metadata.name].accelerator
                              /\ d.instance_num >= 1
            /\ Sum([name \in DOMAIN out |-> out[name].numReplicas])
                  = Sum([m \in DOMAIN res.models_data |-> TotalReplicas(res, m)])

=============================================================================
